---- MODULE Spec2Model ----
(***************************************************************************)
(* Model of pdf_summarizer: DocumentSummarizer (src/src/summarizer.py) and *)
(* TextExtractor (src/src/text_extractor.py).                              *)
(*                                                                         *)
(* A Python str is a sequence of one-character strings.  The alphabet has  *)
(* one or two representatives of each class the code distinguishes:        *)
(*   "a", "b"  word characters (\w)                                        *)
(*   " ", "\n" whitespace (\s)                                             *)
(*   "@"       a character outside [\w\s.,;:!?]                            *)
(***************************************************************************)
EXTENDS Integers, Sequences, FiniteSets, TLC

\* ------------------------------------------------------------- bounds
MaxTextLen == 8        \* longest input of preprocess_text
MaxTwiceLen == 9       \* longest input of preprocess_text applied twice
MaxChunkTextLen == 6   \* longest input of _split_text_into_chunks
MaxMaxLength == 4      \* largest max_length of _split_text_into_chunks
MaxSumTextLen == 7     \* longest input of generate_summary
MaxPages == 2          \* most pages (paragraphs) a parser yields

\* ------------------------------------------------------ str primitives
Whitespace == {" ", "\n"}
Punctuation == {".", ",", ";", ":", "!", "?"}
WordChars == {"a", "b"}
Chars == {"a", " ", "\n", "@"}
ChunkChars == {"a", "b", " ", "\n"}

IsSpace(c) == c \in Whitespace

\* All strings over alphabet A of length at most n.
StringsUpTo(A, n) == UNION {[1..k -> A] : k \in 0..n}

RECURSIVE SplitAcc(_, _, _)
SplitAcc(s, cur, acc) ==
    IF s = <<>>
    THEN IF cur = <<>> THEN acc ELSE Append(acc, cur)
    ELSE IF IsSpace(Head(s))
         THEN SplitAcc(Tail(s), <<>>, IF cur = <<>> THEN acc ELSE Append(acc, cur))
         ELSE SplitAcc(Tail(s), Append(cur, Head(s)), acc)

\* str.split(): the maximal runs of non-whitespace characters.
split(s) == SplitAcc(s, <<>>, <<>>)

RECURSIVE SplitOnAcc(_, _, _, _)
SplitOnAcc(s, sep, cur, acc) ==
    IF s = <<>> THEN Append(acc, cur)
    ELSE IF Head(s) = sep
         THEN SplitOnAcc(Tail(s), sep, <<>>, Append(acc, cur))
         ELSE SplitOnAcc(Tail(s), sep, Append(cur, Head(s)), acc)

\* str.split(sep) for a one-character sep: empty pieces are kept.
split_on(s, sep) == SplitOnAcc(s, sep, <<>>, <<>>)

RECURSIVE join(_, _)
\* sep.join(parts)
join(sep, parts) ==
    IF parts = <<>> THEN <<>>
    ELSE IF Len(parts) = 1 THEN parts[1]
    ELSE parts[1] \o sep \o join(sep, Tail(parts))

RECURSIVE LStrip(_)
LStrip(s) == IF s # <<>> /\ IsSpace(Head(s)) THEN LStrip(Tail(s)) ELSE s

RECURSIVE RStrip(_)
RStrip(s) ==
    IF s # <<>> /\ IsSpace(s[Len(s)]) THEN RStrip(SubSeq(s, 1, Len(s) - 1)) ELSE s

\* str.strip()
strip(s) == RStrip(LStrip(s))

\* ------------------------------------------- DocumentSummarizer.preprocess_text
RECURSIVE DropSpaces(_)
DropSpaces(s) == IF s # <<>> /\ Head(s) = " " THEN DropSpaces(Tail(s)) ELSE s

RECURSIVE CollapseSpacesOnly(_)
\* re.sub(r' +', ' ', text): a collapse that leaves newlines alone.
CollapseSpacesOnly(s) ==
    IF s = <<>> THEN <<>>
    ELSE IF Head(s) = " "
         THEN <<" ">> \o CollapseSpacesOnly(DropSpaces(s))
         ELSE <<Head(s)>> \o CollapseSpacesOnly(Tail(s))

RECURSIVE CollapseWhitespace(_)
\* re.sub(r'\s+', ' ', text): every maximal whitespace run becomes one space.
CollapseWhitespace(s) ==
    IF s = <<>> THEN <<>>
    ELSE IF IsSpace(Head(s))
         THEN <<" ">> \o CollapseWhitespace(LStrip(s))
         ELSE <<Head(s)>> \o CollapseWhitespace(Tail(s))

\* The characters re.sub(r'[^\w\s\.\,\;\:\!\?]', '', text) keeps.
IsKept(c) == c \in WordChars \/ c \in Whitespace \/ c \in Punctuation

StripSpecial(s) == SelectSeq(s, IsKept)

MinLineTokens == 3

LongLine(line) == Len(split(line)) > MinLineTokens

preprocess_text(t) ==
    LET collapsed == CollapseWhitespace(t)
        cleaned == StripSpecial(collapsed)
        lines == split_on(cleaned, "\n")
        cleaned_lines == SelectSeq(lines, LongLine)
    IN  strip(join(<<"\n">>, cleaned_lines))

\* ---------------------------------------------------------------- state
VARIABLES
    pc,                 \* position of the call under way
    text,               \* the str argument (summarizer) / local text (extractor)
    outcome,            \* how the call ended: a returned value or a raised exception
    preprocessed,       \* preprocess_text(text)
    preprocessed_again, \* preprocess_text(preprocess_text(text))
    max_length,         \* _split_text_into_chunks: argument
    words,              \* _split_text_into_chunks: words the loop has not reached yet
    chunks,             \* _split_text_into_chunks: chunks
    current_chunk,      \* _split_text_into_chunks: current_chunk
    method,             \* generate_summary: argument
    textrank,           \* generate_summary: whether the TextRank library raises
    summary,            \* generate_summary: summary
    path_exists,        \* extract_text: file_path.exists()
    suffix,             \* extract_text: file_path.suffix
    plumber,            \* extract_text: what pdfplumber does with the file
    pypdf,              \* extract_text: what PyPDF2 does with the file
    docx,               \* extract_text: what python-docx does with the file
    invoked             \* extract_text: the parsers called so far

preVars == <<preprocessed, preprocessed_again>>
chunkVars == <<max_length, words, chunks, current_chunk>>
sumVars == <<method, textrank, summary>>
extVars == <<path_exists, suffix, plumber, pypdf, docx, invoked>>
vars == <<pc, text, outcome, preVars, chunkVars, sumVars, extVars>>

\* Python's None where a str is expected, and the idle values of the other types.
None == <<"None">>
NoOutcome == [kind |-> "none"]
NoRun == [raises |-> TRUE, pages |-> <<>>]

Return(v) == [kind |-> "return", value |-> v]
Raise(e) == [kind |-> "raise", exc |-> e]

PreIdle == preprocessed = None /\ preprocessed_again = None
ChunkIdle == max_length = 0 /\ words = <<>> /\ chunks = <<>> /\ current_chunk = <<>>
SumIdle == method = "none" /\ textrank = "none" /\ summary = None
ExtIdle ==
    /\ path_exists = FALSE /\ suffix = None /\ plumber = NoRun
    /\ pypdf = NoRun /\ docx = NoRun /\ invoked = {}

\* ------------------------------------------------ preprocess_text, twice
\* text is any string over Chars of length at most n: a first half h and,
\* after a full first half, a rest t.
InitPreUpTo(n) ==
    /\ pc = "pre_call"
    /\ \E h \in StringsUpTo(Chars, n \div 2),
          t \in StringsUpTo(Chars, n - (n \div 2)) :
            /\ (Len(h) = n \div 2 \/ t = <<>>)
            /\ text = h \o t
    /\ outcome = NoOutcome
    /\ PreIdle /\ ChunkIdle /\ SumIdle /\ ExtIdle

InitPre == InitPreUpTo(MaxTextLen)

InitPreTwice == InitPreUpTo(MaxTwiceLen)

Preprocess ==
    /\ pc = "pre_call"
    /\ preprocessed' = preprocess_text(text)
    /\ pc' = "pre_again"
    /\ UNCHANGED <<text, outcome, preprocessed_again, chunkVars, sumVars, extVars>>

PreprocessAgain ==
    /\ pc = "pre_again"
    /\ preprocessed_again' = preprocess_text(preprocessed)
    /\ pc' = "pre_done"
    /\ UNCHANGED <<text, outcome, preprocessed, chunkVars, sumVars, extVars>>

NextPre == Preprocess \/ PreprocessAgain

SpecPre == InitPre /\ [][NextPre]_vars

SpecPreTwice == InitPreTwice /\ [][NextPre]_vars

\* ------------------------- DocumentSummarizer._split_text_into_chunks
AllButLast(s) == SubSeq(s, 1, Len(s) - 1)

\* chunks.append(' '.join(current_chunk)): a flush that keeps the last word.
FlushedWhole(cc) == join(<<" ">>, cc)

\* chunks.append(' '.join(current_chunk[:-1]))
Flushed(cc) == join(<<" ">>, AllButLast(cc))

InitChunk ==
    /\ pc = "split_call"
    /\ text \in StringsUpTo(ChunkChars, MaxChunkTextLen)
    /\ max_length \in 0..MaxMaxLength
    /\ words = <<>> /\ chunks = <<>> /\ current_chunk = <<>>
    /\ outcome = NoOutcome
    /\ PreIdle /\ SumIdle /\ ExtIdle

SplitStart ==
    /\ pc = "split_call"
    /\ words' = split(text)
    /\ chunks' = <<>>
    /\ current_chunk' = <<>>
    /\ pc' = "split_loop"
    /\ UNCHANGED <<text, outcome, max_length, preVars, sumVars, extVars>>

SplitLoop ==
    /\ pc = "split_loop"
    /\ words # <<>>
    /\ LET word == Head(words)
           cc == Append(current_chunk, word)
       IN  IF Len(join(<<" ">>, cc)) > max_length
           THEN /\ chunks' = Append(chunks, Flushed(cc))
                /\ current_chunk' = <<word>>
           ELSE /\ chunks' = chunks
                /\ current_chunk' = cc
    /\ words' = Tail(words)
    /\ UNCHANGED <<pc, text, outcome, max_length, preVars, sumVars, extVars>>

SplitFinish ==
    /\ pc = "split_loop"
    /\ words = <<>>
    /\ chunks' = IF current_chunk # <<>>
                 THEN Append(chunks, join(<<" ">>, current_chunk))
                 ELSE chunks
    /\ outcome' = Return(chunks')
    /\ pc' = "split_done"
    /\ UNCHANGED <<text, max_length, words, current_chunk, preVars, sumVars, extVars>>

NextChunk == SplitStart \/ SplitLoop \/ SplitFinish

SpecChunk == InitChunk /\ [][NextChunk]_vars

\* ------------------------------ DocumentSummarizer.generate_summary
Methods == {"extractive", "abstractive", "hybrid"}
MethodArgs == Methods \cup {"other"}

\* sentence_count of the extractive pass: the default and the hybrid one.
DefaultSentenceCount == 5
HybridSentenceCount == 10

\* extractive_summarization with the except clause dropped: the library's
\* exception reaches the caller.
ExtractivePropagating(t, sentence_count, lib) ==
    IF lib = "raise" THEN Raise("TextRankError")
    ELSE Return(join(<<" ">>, split(t)))

\* extractive_summarization: the sentences TextRank selects, joined by single
\* spaces; any exception is logged and "" returned.  Every text within
\* MaxSumTextLen has fewer than sentence_count sentences, so the library
\* selects all of them.
extractive_summarization(t, sentence_count, lib) ==
    IF lib = "raise" THEN Return(<<>>)
    ELSE Return(join(<<" ">>, split(t)))

\* The methods class DocumentSummarizer defines.
ClassMethods ==
    {"__init__", "_initialize_models", "preprocess_text",
     "extractive_summarization", "_split_text_into_chunks", "generate_summary"}

\* self.<name>: an attribute the class does not define raises AttributeError.
HasMethod(name) == name \in ClassMethods

\* The returned dict; the float compression_ratio is kept as the pair
\* <<numerator, denominator>> of the division that computes it.
SummaryResult(t, s, m) ==
    [summary |-> s,
     original_length |-> Len(split(t)),
     summary_length |-> Len(split(s)),
     compression_ratio |-> <<Len(split(s)), Len(split(t))>>,
     method |-> m]

InitSum ==
    /\ pc = "sum_call"
    /\ text \in StringsUpTo(Chars, MaxSumTextLen)
    /\ method \in MethodArgs
    /\ textrank \in {"ok", "raise"}
    /\ summary = None
    /\ preprocessed = None /\ preprocessed_again = None
    /\ outcome = NoOutcome
    /\ invoked = {}
    /\ ChunkIdle
    /\ path_exists = FALSE /\ suffix = None /\ plumber = NoRun
    /\ pypdf = NoRun /\ docx = NoRun

\* line 95
SumPreprocess ==
    /\ pc = "sum_call"
    /\ preprocessed' = preprocess_text(text)
    /\ pc' = "sum_dispatch"
    /\ UNCHANGED <<text, outcome, preprocessed_again, chunkVars, sumVars, extVars>>

\* lines 97-98
SumExtractive ==
    /\ pc = "sum_dispatch"
    /\ method = "extractive"
    /\ LET r == extractive_summarization(preprocessed, DefaultSentenceCount, textrank)
       IN  IF r.kind = "raise"
           THEN /\ outcome' = r
                /\ pc' = "sum_done"
                /\ UNCHANGED summary
           ELSE /\ summary' = r.value
                /\ pc' = "sum_return"
                /\ UNCHANGED outcome
    /\ invoked' = invoked \cup {"extractive"}
    /\ UNCHANGED <<text, preVars, chunkVars, method, textrank,
                   path_exists, suffix, plumber, pypdf, docx>>

\* lines 99-100: self.abstractive_summarization is looked up and called
SumAbstractive ==
    /\ pc = "sum_dispatch"
    /\ method = "abstractive"
    /\ ~HasMethod("abstractive_summarization")
    /\ outcome' = Raise("AttributeError")
    /\ pc' = "sum_done"
    /\ UNCHANGED <<text, preVars, chunkVars, sumVars, extVars>>

\* lines 101-103
SumHybridExtractive ==
    /\ pc = "sum_dispatch"
    /\ method = "hybrid"
    /\ LET r == extractive_summarization(preprocessed, HybridSentenceCount, textrank)
       IN  IF r.kind = "raise"
           THEN /\ outcome' = r
                /\ pc' = "sum_done"
                /\ UNCHANGED summary
           ELSE /\ summary' = r.value
                /\ pc' = "sum_hybrid"
                /\ UNCHANGED outcome
    /\ invoked' = invoked \cup {"extractive"}
    /\ UNCHANGED <<text, preVars, chunkVars, method, textrank,
                   path_exists, suffix, plumber, pypdf, docx>>

\* line 104: self.abstractive_summarization is looked up and called
SumHybridAbstractive ==
    /\ pc = "sum_hybrid"
    /\ ~HasMethod("abstractive_summarization")
    /\ outcome' = Raise("AttributeError")
    /\ pc' = "sum_done"
    /\ UNCHANGED <<text, preVars, chunkVars, sumVars, extVars>>

\* lines 105-106
SumUnknownMethod ==
    /\ pc = "sum_dispatch"
    /\ method \notin Methods
    /\ outcome' = Raise("ValueError")
    /\ pc' = "sum_done"
    /\ UNCHANGED <<text, preVars, chunkVars, sumVars, extVars>>

\* lines 108-114: the division raises when text has no token
SumReturn ==
    /\ pc = "sum_return"
    /\ outcome' = IF Len(split(text)) = 0
                  THEN Raise("ZeroDivisionError")
                  ELSE Return(SummaryResult(text, summary, method))
    /\ pc' = "sum_done"
    /\ UNCHANGED <<text, preVars, chunkVars, sumVars, extVars>>

NextSum ==
    \/ SumPreprocess
    \/ SumExtractive
    \/ SumAbstractive
    \/ SumHybridExtractive
    \/ SumHybridAbstractive
    \/ SumUnknownMethod
    \/ SumReturn

SpecSum == InitSum /\ [][NextSum]_vars

\* ---------------------------------------------- TextExtractor.extract_text
Suffixes == {<<".pdf">>, <<".PDF">>, <<".docx">>, <<".Docx">>, <<".txt">>, <<"">>}

\* str.lower() on the suffixes of the model
lower(sfx) ==
    CASE sfx = <<".PDF">> -> <<".pdf">>
      [] sfx = <<".Docx">> -> <<".docx">>
      [] OTHER -> sfx

\* What a page (or a paragraph) can hold.
PageTexts == {<<>>, <<" ">>, <<"a", " ", "b">>}

\* What a parser does with a file: it raises, or yields the text of each page.
ParserRuns ==
    {NoRun} \cup {[raises |-> FALSE, pages |-> p] :
                    p \in UNION {[1..k -> PageTexts] : k \in 0..MaxPages}}

\* A dispatch whose final branch falls through to the PDF path.
FormatOfNoElse(sfx) ==
    IF lower(sfx) = <<".docx">> THEN "docx" ELSE "pdf"

\* lines 29-34: the branch the suffix selects
FormatOf(sfx) ==
    IF lower(sfx) = <<".pdf">> THEN "pdf"
    ELSE IF lower(sfx) = <<".docx">> THEN "docx"
    ELSE "unsupported"

RECURSIVE PlumberText(_)
\* lines 52-55: a page's text and "\n" for every page whose text is truthy
PlumberText(pages) ==
    IF pages = <<>> THEN <<>>
    ELSE (IF Head(pages) # <<>> THEN Head(pages) \o <<"\n">> ELSE <<>>)
         \o PlumberText(Tail(pages))

RECURSIVE PyPdfText(_)
\* lines 61-62: a page's text and "\n" for every page
PyPdfText(pages) ==
    IF pages = <<>> THEN <<>>
    ELSE Head(pages) \o <<"\n">> \o PyPdfText(Tail(pages))

\* lines 68-73 and 91-96 (metadata left out): the returned dict
ExtractResult(t) ==
    [text |-> strip(t), word_count |-> Len(split(t)), char_count |-> Len(t)]

InitExt ==
    /\ pc = "ext_call"
    /\ path_exists \in BOOLEAN
    /\ suffix \in Suffixes
    /\ plumber \in ParserRuns
    /\ pypdf \in ParserRuns
    /\ docx \in ParserRuns
    /\ invoked = {}
    /\ text = <<>>
    /\ outcome = NoOutcome
    /\ PreIdle /\ ChunkIdle /\ SumIdle

\* lines 24-34
ExtractText ==
    /\ pc = "ext_call"
    /\ IF ~path_exists
       THEN outcome' = Raise("FileNotFoundError") /\ pc' = "ext_done"
       ELSE CASE FormatOf(suffix) = "pdf" -> outcome' = outcome /\ pc' = "pdf_primary"
              [] FormatOf(suffix) = "docx" -> outcome' = outcome /\ pc' = "docx"
              [] OTHER -> outcome' = Raise("ValueError") /\ pc' = "ext_done"
    /\ UNCHANGED <<text, preVars, chunkVars, sumVars, extVars>>

\* lines 41-55 and 64-66: pdfplumber; an exception is logged and re-raised
PdfPrimary ==
    /\ pc = "pdf_primary"
    /\ invoked' = invoked \cup {"pdfplumber"}
    /\ IF plumber.raises
       THEN /\ outcome' = Raise("ParserError")
            /\ pc' = "ext_done"
            /\ UNCHANGED text
       ELSE /\ text' = text \o PlumberText(plumber.pages)
            /\ pc' = IF strip(text') = <<>> THEN "pdf_fallback" ELSE "pdf_return"
            /\ UNCHANGED outcome
    /\ UNCHANGED <<preVars, chunkVars, sumVars,
                   path_exists, suffix, plumber, pypdf, docx>>

\* lines 58-66: PyPDF2, when the text so far is empty or whitespace
PdfFallback ==
    /\ pc = "pdf_fallback"
    /\ invoked' = invoked \cup {"PyPDF2"}
    /\ IF pypdf.raises
       THEN /\ outcome' = Raise("ParserError")
            /\ pc' = "ext_done"
            /\ UNCHANGED text
       ELSE /\ text' = text \o PyPdfText(pypdf.pages)
            /\ pc' = "pdf_return"
            /\ UNCHANGED outcome
    /\ UNCHANGED <<preVars, chunkVars, sumVars,
                   path_exists, suffix, plumber, pypdf, docx>>

\* lines 68-73
PdfReturn ==
    /\ pc = "pdf_return"
    /\ outcome' = Return(ExtractResult(text))
    /\ pc' = "ext_done"
    /\ UNCHANGED <<text, preVars, chunkVars, sumVars, extVars>>

\* lines 77-100: python-docx; an exception is logged and re-raised
ExtractFromDocx ==
    /\ pc = "docx"
    /\ invoked' = invoked \cup {"python-docx"}
    /\ IF docx.raises
       THEN /\ outcome' = Raise("ParserError")
            /\ UNCHANGED text
       ELSE /\ text' = join(<<"\n">>, docx.pages)
            /\ outcome' = Return(ExtractResult(text'))
    /\ pc' = "ext_done"
    /\ UNCHANGED <<preVars, chunkVars, sumVars,
                   path_exists, suffix, plumber, pypdf, docx>>

NextExt ==
    \/ ExtractText
    \/ PdfPrimary
    \/ PdfFallback
    \/ PdfReturn
    \/ ExtractFromDocx

SpecExt == InitExt /\ [][NextExt]_vars

\* =============================================================== properties
Range(f) == {f[i] : i \in DOMAIN f}

\* C1: when _split_text_into_chunks has returned, its chunks joined by single
\* spaces are the words of text.split() joined by single spaces, and no chunk
\* is the empty string.
C1_ChunksReproduceText ==
    pc = "split_done" =>
        /\ join(<<" ">>, chunks) = join(<<" ">>, split(text))
        /\ \A i \in DOMAIN chunks : chunks[i] # <<>>

\* C2: every chunk, whether flushed inside the loop or appended after it, is at
\* most max_length characters long, unless it is exactly one word that is
\* itself longer than max_length.
C2_ChunkLengthBound ==
    \A i \in DOMAIN chunks :
        \/ Len(chunks[i]) <= max_length
        \/ (split(chunks[i]) = <<chunks[i]>> /\ Len(chunks[i]) > max_length)

\* C2 witness: the call has returned, a one-word chunk longer than max_length
\* was flushed inside the loop, and the final chunk is non-empty and within
\* max_length.
C2_Witness ==
    /\ pc = "split_done"
    /\ Len(chunks) >= 2
    /\ \E i \in 1..(Len(chunks) - 1) :
          split(chunks[i]) = <<chunks[i]>> /\ Len(chunks[i]) > max_length
    /\ chunks[Len(chunks)] # <<>>
    /\ Len(chunks[Len(chunks)]) <= max_length

\* C3: preprocess_text applied to its own output returns that output.
C3_PreprocessIdempotent ==
    pc = "pre_done" => preprocessed_again = preprocessed

C4_EmptyInputDefined ==
    (/\ pc = "sum_done"
     /\ method \in Methods
     /\ Len(split(text)) = 0
     /\ outcome # Raise("AttributeError")) =>
        IF outcome.kind = "return"
        THEN outcome.value.compression_ratio[1] = 0
        ELSE outcome.exc = "EmptyInput"

\* C5: for each of the three methods, generate_summary on a text with tokens,
\* the TextRank library not failing, returns a result whose 'method' is the
\* requested method.
C5_DispatchReturnsMethod ==
    (/\ pc = "sum_done"
     /\ method \in Methods
     /\ Len(split(text)) > 0
     /\ textrank = "ok") =>
        /\ outcome.kind = "return"
        /\ outcome.value.method = method

\* C9: with method 'extractive' and a text of at least one token, a failure of
\* the ranking step ends in a result with summary '', summary_length 0 and
\* compression_ratio 0; with 'abstractive' and 'hybrid' the failure of the
\* abstractive step reaches the caller and no result is returned.
C9_FailureAsymmetry ==
    pc = "sum_done" =>
        /\ (method = "extractive" /\ textrank = "raise" /\ Len(split(text)) >= 1) =>
              /\ outcome.kind = "return"
              /\ outcome.value.summary = <<>>
              /\ outcome.value.summary_length = 0
              /\ outcome.value.compression_ratio[1] = 0
              /\ outcome.value.compression_ratio[2] > 0
        /\ method \in {"abstractive", "hybrid"} => outcome.kind = "raise"

\* C9 witness: an extractive call on a text with tokens whose ranking step
\* failed has returned.
C9_Witness ==
    /\ pc = "sum_done"
    /\ method = "extractive"
    /\ textrank = "raise"
    /\ Len(split(text)) >= 1
    /\ "extractive" \in invoked
    /\ outcome.kind = "return"

\* C6: a successful extract_text returns word_count and char_count that are
\* the token count and the length of the returned 'text'.
C6_CountsMatchText ==
    (pc = "ext_done" /\ outcome.kind = "return") =>
        /\ outcome.value.word_count = Len(split(outcome.value.text))
        /\ outcome.value.char_count = Len(outcome.value.text)

Supported == {<<".pdf">>, <<".docx">>}

\* C7 as claimed: for a suffix that is neither .pdf nor .docx, whether or not
\* the path exists, no parser is invoked and the call ends in ValueError.
C7_UnsupportedAlwaysValueError ==
    lower(suffix) \notin Supported =>
        /\ invoked = {}
        /\ pc = "ext_done" => outcome = Raise("ValueError")

\* C7 amended: for a suffix that is neither .pdf nor .docx no parser is
\* invoked, and the call ends in ValueError when the path exists and in
\* FileNotFoundError when it does not.
C7_UnsupportedFailsWithoutParsing ==
    lower(suffix) \notin Supported =>
        /\ invoked = {}
        /\ pc = "ext_done" =>
              outcome = IF path_exists THEN Raise("ValueError")
                        ELSE Raise("FileNotFoundError")

\* C7 witness: the call on an existing path with an unsupported suffix has
\* ended in ValueError.
C7_Witness ==
    /\ pc = "ext_done"
    /\ path_exists
    /\ lower(suffix) \notin Supported
    /\ outcome = Raise("ValueError")

\* C8: a PDF extraction ends in an error only after the secondary parser
\* (PyPDF2) was attempted and failed too.
C8_ErrorOnlyAfterBothFail ==
    (pc = "ext_done" /\ outcome.kind = "raise" /\ "pdfplumber" \in invoked) =>
        /\ "PyPDF2" \in invoked
        /\ pypdf.raises

====
